---- MODULE Spec2Model ----
(***************************************************************************)
(* validate_pipeline.py: a pre-flight validator that runs seven checks     *)
(* against the environment, collects errors and warnings, prints a report  *)
(* and exits with a status derived from the error log.                     *)
(*                                                                         *)
(* The environment (filesystem, container runtime, TCP stack, resolver) is *)
(* chosen in Init and stays fixed; the script is then run MaxRuns times    *)
(* against it.  `out` holds the lines printed by the validator's methods.  *)
(***************************************************************************)
EXTENDS Integers, Sequences, FiniteSets, TLC

\* At most MaxFaults probes of the environment deviate from the healthy outcome.
MaxFaults == 3
\* The script is run MaxRuns times against the same environment.
MaxRuns == 2

VARIABLES env, pc, errors, warnings, out, port_i, sockets, ret, exit_code, history

vars == <<env, pc, errors, warnings, out, port_i, sockets, ret, exit_code, history>>

(***************************************************************************)
(* Hardcoded configuration                                                 *)
(***************************************************************************)
required_dirs ==
    << "/home/homar/spark-kafka-stream/data_lake",
       "/home/homar/spark-kafka-stream/checkpoints",
       "/home/homar/spark-kafka-stream/scripts" >>

required_containers == << "spark-master", "ci-vertica-db", "dbeaver-client", "pg-db" >>

ports_to_check ==
    << [port |-> 8888,  service |-> "Jupyter"],
       [port |-> 8978,  service |-> "DBeaver"],
       [port |-> 15433, service |-> "Vertica"],
       [port |-> 5445,  service |-> "PostgreSQL"],
       [port |-> 4040,  service |-> "Spark UI"] >>

notebook_path == "/home/homar/spark-kafka-stream/scripts/realtime_sms_pipeline.ipynb"

(***************************************************************************)
(* String helpers: str(int), and str.strip() / str.split('\n') on a text   *)
(* given as a sequence of tokens (a container name, or the newline).       *)
(***************************************************************************)
Digits == << "0", "1", "2", "3", "4", "5", "6", "7", "8", "9" >>

RECURSIVE str(_)
str(n) == IF n < 10 THEN Digits[n + 1] ELSE str(n \div 10) \o Digits[(n % 10) + 1]

RECURSIVE lstrip(_)
lstrip(s) == IF s # << >> /\ Head(s) = "\n" THEN lstrip(Tail(s)) ELSE s

RECURSIVE rstrip(_)
rstrip(s) ==
    IF s # << >> /\ s[Len(s)] = "\n" THEN rstrip(SubSeq(s, 1, Len(s) - 1)) ELSE s

strip(s) == rstrip(lstrip(s))

RECURSIVE split(_)
split(s) ==
    IF s = << >> THEN << "" >>
    ELSE IF Head(s) = "\n" THEN << "" >> \o split(Tail(s))
    ELSE LET r == split(Tail(s)) IN << Head(s) \o Head(r) >> \o Tail(r)

\* Mutant of In: only the first line of the listing is compared.
In_first_line(x, list) == list # << >> /\ list[1] = x

\* Python's `x in list`
In(x, list) == \E k \in 1..Len(list) : list[k] = x

(***************************************************************************)
(* PipelineValidator: the two logs, and the lines it prints.  A validator  *)
(* value is a record [errors, warnings, out]; a printed line is a record   *)
(* [mark, text], mark being the marker the logging helper puts in front    *)
(* ("ERROR", "WARNING", "OK" for the success sign, "" for a plain print).  *)
(* Decorative output (emoji, separator rules, blank lines) is left out;    *)
(* the bullet of a report entry is written " - ".                          *)
(***************************************************************************)
PipelineValidator_init == [errors |-> << >>, warnings |-> << >>, out |-> << >>]

print(self, text) == [self EXCEPT !.out = Append(@, [mark |-> "", text |-> text])]

log_error(self, message) ==
    [self EXCEPT !.errors = Append(@, message),
                 !.out = Append(@, [mark |-> "ERROR", text |-> message])]

log_warning(self, message) ==
    [self EXCEPT !.warnings = Append(@, message),
                 !.out = Append(@, [mark |-> "WARNING", text |-> message])]

\* Mutant of log_success: the message is also kept in the warning log.
log_success_logged(self, message) ==
    [self EXCEPT !.warnings = Append(@, message),
                 !.out = Append(@, [mark |-> "OK", text |-> message])]

log_success(self, message) ==
    [self EXCEPT !.out = Append(@, [mark |-> "OK", text |-> message])]

(***************************************************************************)
(* Check routines.  Each takes the validator and the outcome of the OS     *)
(* call it makes, and returns the validator after the routine.             *)
(***************************************************************************)
RECURSIVE check_directories_loop(_, _, _)
check_directories_loop(self, fs, k) ==
    IF k > Len(required_dirs) THEN self
    ELSE LET directory == required_dirs[k] IN
         check_directories_loop(
            IF directory \in fs
            THEN log_success(self, "Directory exists: " \o directory)
            ELSE log_error(self, "Directory missing: " \o directory),
            fs, k + 1)

check_directories(self, fs) ==
    check_directories_loop(print(self, "Checking directories..."), fs, 1)

RECURSIVE check_docker_containers_loop(_, _, _)
check_docker_containers_loop(self, running_containers, k) ==
    IF k > Len(required_containers) THEN self
    ELSE LET container == required_containers[k] IN
         check_docker_containers_loop(
            IF In(container, running_containers)
            THEN log_success(self, "Container running: " \o container)
            ELSE log_error(self, "Container not running: " \o container),
            running_containers, k + 1)

\* result: [raises, returncode, stdout] of subprocess.run(['docker', 'ps', ...])
check_docker_containers(self, result) ==
    LET s == print(self, "Checking Docker containers...") IN
    IF result.raises # ""
    THEN log_error(s, "Failed to check Docker containers: " \o result.raises)
    ELSE check_docker_containers_loop(s, split(strip(result.stdout)), 1)

\* result: [raises, returncode] of subprocess.run(['docker', 'exec', ..., 'ping', ...])
check_network_connectivity(self, result) ==
    LET s == print(self, "Checking network connectivity...") IN
    IF result.raises # ""
    THEN log_error(s, "Failed to test network connectivity: " \o result.raises)
    ELSE IF result.returncode = 0
    THEN log_success(s, "Spark can reach Vertica container")
    ELSE log_error(s, "Spark cannot reach Vertica container")

\* The try block of one iteration of check_ports; result: [raises, errno] of
\* sock.connect_ex(('localhost', port)).
check_ports_try(self, p, result) ==
    IF result.raises # ""
    THEN log_warning(self, "Failed to check " \o p.service \o " on port "
                            \o str(p.port) \o ": " \o result.raises)
    ELSE IF result.errno = 0
    THEN log_success(self, p.service \o " accessible on port " \o str(p.port))
    ELSE log_warning(self, p.service \o " not accessible on port " \o str(p.port))

\* result: [raises, returncode] of subprocess.run(['docker', 'exec', ..., 'vsql', ...])
check_vertica_status(self, result) ==
    LET s == print(self, "Checking Vertica database...") IN
    IF result.raises # ""
    THEN log_warning(s, "Could not check Vertica status: " \o result.raises)
    ELSE IF result.returncode = 0
    THEN log_success(s, "Vertica database is ready")
    ELSE log_warning(s, "Vertica database might still be initializing")

\* The exception classes `except socket.gaierror` catches.
KafkaCaught == { "gaierror" }

\* raises: what socket.gethostbyname raised ("" when it returned).  The
\* result is the validator and the exception that leaves the routine, if any.
check_kafka_connectivity(self, raises) ==
    LET s == print(self, "Checking Kafka connectivity...") IN
    IF raises = ""
    THEN [self |-> log_success(s, "Kafka hostname can be resolved"), raised |-> ""]
    ELSE IF raises \in KafkaCaught
    THEN [self |-> log_warning(s, "Cannot resolve Kafka hostname - ensure VPN is connected"),
          raised |-> ""]
    ELSE [self |-> s, raised |-> raises]

check_notebook_files(self, fs) ==
    LET s == print(self, "Checking notebook files...") IN
    IF notebook_path \in fs
    THEN log_success(s, "Pipeline notebook found in scripts directory")
    ELSE log_error(s, "Pipeline notebook not found in scripts directory")

(***************************************************************************)
(* generate_report: the lines it prints and the value it returns.          *)
(***************************************************************************)
RECURSIVE print_bullets(_, _)
print_bullets(self, log) ==
    IF log = << >> THEN self
    ELSE print_bullets(print(self, "   - " \o Head(log)), Tail(log))

report_banner(self) ==
    IF self.errors = << >> /\ self.warnings = << >>
    THEN print(print(self, "ALL CHECKS PASSED!"), "Your pipeline is ready for testing!")
    ELSE self

report_warnings(self) ==
    IF self.warnings # << >>
    THEN print_bullets(print(self, "WARNINGS (" \o str(Len(self.warnings)) \o "):"),
                       self.warnings)
    ELSE self

report_errors(self) ==
    IF self.errors # << >>
    THEN print(print_bullets(print(self, "ERRORS (" \o str(Len(self.errors)) \o "):"),
                             self.errors),
               "Please fix the errors before running the pipeline")
    ELSE self

report_next_steps(self) ==
    LET s == print(self, "Next Steps:") IN
    IF self.errors = << >>
    THEN print(print(print(print(s,
            "1. Ensure VPN connection to Unifonic Kafka"),
            "2. Open Jupyter: http://localhost:8888"),
            "3. Run the realtime_sms_pipeline.ipynb notebook"),
            "4. Monitor results in DBeaver: http://localhost:8978")
    ELSE print(print(print(s,
            "1. Fix the errors listed above"),
            "2. Run this validation script again"),
            "3. Ensure all Docker containers are running")

\* Mutant of generate_report: warnings make the returned value false.
generate_report_counting_warnings(self) ==
    LET s == print(self, "VALIDATION REPORT") IN
    [self |-> report_next_steps(report_errors(report_warnings(report_banner(s)))),
     value |-> (Len(self.errors) = 0 /\ Len(self.warnings) = 0)]

\* Mutant of generate_report: the errors are printed before the warnings.
generate_report_errors_first(self) ==
    LET s == print(self, "VALIDATION REPORT") IN
    [self |-> report_next_steps(report_warnings(report_errors(report_banner(s)))),
     value |-> (Len(self.errors) = 0)]

generate_report(self) ==
    LET s == print(self, "VALIDATION REPORT") IN
    [self |-> report_next_steps(report_errors(report_warnings(report_banner(s)))),
     value |-> (Len(self.errors) = 0)]

(***************************************************************************)
(* The environment: the outcome of every OS call the script makes.         *)
(*   fs      the paths that exist (os.path.exists)                         *)
(*   docker  subprocess.run of `docker ps`: [raises, returncode, stdout]   *)
(*   ping    subprocess.run of `docker exec ... ping`: [raises, returncode]*)
(*   ports   per entry of ports_to_check: what socket.socket(), settimeout *)
(*           and connect_ex do                                             *)
(*   vertica subprocess.run of `docker exec ... vsql`: [raises, returncode]*)
(*   dns     what socket.gethostbyname raises ("" when it resolves)        *)
(* `raises` is the class of the exception raised, "" when the call         *)
(* returns; the other fields are read only when it returns.  Each choice   *)
(* is paired with the number of probes that deviate from the healthy       *)
(* outcome.                                                                *)
(***************************************************************************)
Paths == { required_dirs[k] : k \in 1..Len(required_dirs) } \cup { notebook_path }

\* The notebook lives inside the scripts directory.
FsChoices ==
    { [faults |-> Cardinality(Paths \ S), value |-> S] :
        S \in { T \in SUBSET Paths : notebook_path \in T => required_dirs[3] \in T } }

Required == { required_containers[k] : k \in 1..Len(required_containers) }

\* The order in which the runtime lists containers; one is not required.
ListingOrder == << "other-container", "pg-db", "dbeaver-client", "ci-vertica-db", "spark-master" >>

RECURSIVE ps_lines(_)
ps_lines(names) ==
    IF names = << >> THEN << >> ELSE << Head(names), "\n" >> \o ps_lines(Tail(names))

\* stdout of `docker ps --format {{.Names}}` when the containers in R run
ps_output(R) == ps_lines(SelectSeq(ListingOrder, LAMBDA n : n \in R))

DockerChoices ==
    { [faults |-> 1, value |-> [raises |-> "FileNotFoundError", returncode |-> 0, stdout |-> << >>]],
      [faults |-> 1, value |-> [raises |-> "", returncode |-> 1, stdout |-> << >>]] }
    \cup
    { [faults |-> Cardinality((Required \ R) \cup (R \ Required)),
       value |-> [raises |-> "", returncode |-> 0, stdout |-> ps_output(R)]] :
        R \in SUBSET { ListingOrder[k] : k \in 1..Len(ListingOrder) } }

ProcChoices ==
    { [faults |-> 0, value |-> [raises |-> "", returncode |-> 0]],
      [faults |-> 1, value |-> [raises |-> "", returncode |-> 1]],
      [faults |-> 1, value |-> [raises |-> "FileNotFoundError", returncode |-> 0]] }

\* open, refused (ECONNREFUSED), timed out (connect_ex returns EAGAIN),
\* connect_ex raising, settimeout raising, socket.socket() raising
PortOutcomes ==
    { [socket |-> "", settimeout |-> "", raises |-> "", errno |-> 0],
      [socket |-> "", settimeout |-> "", raises |-> "", errno |-> 111],
      [socket |-> "", settimeout |-> "", raises |-> "", errno |-> 11],
      [socket |-> "", settimeout |-> "", raises |-> "gaierror", errno |-> 0],
      [socket |-> "", settimeout |-> "OSError", raises |-> "", errno |-> 0],
      [socket |-> "OSError", settimeout |-> "", raises |-> "", errno |-> 0] }

PortOpen(o) == o.socket = "" /\ o.settimeout = "" /\ o.raises = "" /\ o.errno = 0

PortChoices ==
    { [faults |-> Cardinality({ k \in DOMAIN f : ~PortOpen(f[k]) }), value |-> f] :
        f \in [1..Len(ports_to_check) -> PortOutcomes] }

DnsChoices ==
    { [faults |-> 0, value |-> ""],
      [faults |-> 1, value |-> "gaierror"],
      [faults |-> 1, value |-> "OSError"] }

Within(choices, budget) == { c \in choices : c.faults <= budget }

(***************************************************************************)
(* main: one process per run.  pc is the statement of main (or of the      *)
(* check_ports loop) about to execute; "uncaught" is an exception that has *)
(* left a check routine and is propagating out of main.                    *)
(***************************************************************************)
Self == [errors |-> errors, warnings |-> warnings, out |-> out]

Store(self) ==
    /\ errors' = self.errors
    /\ warnings' = self.warnings
    /\ out' = self.out

Init ==
    /\ \E p \in Within(PortChoices, MaxFaults) :
       \E d \in Within(DockerChoices, MaxFaults - p.faults) :
       \E f \in Within(FsChoices, MaxFaults - p.faults - d.faults) :
       \E n \in Within(ProcChoices, MaxFaults - p.faults - d.faults - f.faults) :
       \E v \in Within(ProcChoices, MaxFaults - p.faults - d.faults - f.faults - n.faults) :
       \E k \in Within(DnsChoices,
                       MaxFaults - p.faults - d.faults - f.faults - n.faults - v.faults) :
          env = [fs |-> f.value, docker |-> d.value, ping |-> n.value,
                 ports |-> p.value, vertica |-> v.value, dns |-> k.value]
    /\ pc = "check_directories"
    /\ errors = PipelineValidator_init.errors
    /\ warnings = PipelineValidator_init.warnings
    /\ out = PipelineValidator_init.out
    /\ port_i = 0
    /\ sockets = { }
    /\ ret = "none"
    /\ exit_code = << >>
    /\ history = << >>

CheckDirectories ==
    /\ pc = "check_directories"
    /\ Store(check_directories(Self, env.fs))
    /\ pc' = "check_docker_containers"
    /\ UNCHANGED <<env, port_i, sockets, ret, exit_code, history>>

CheckDockerContainers ==
    /\ pc = "check_docker_containers"
    /\ Store(check_docker_containers(Self, env.docker))
    /\ pc' = "check_network_connectivity"
    /\ UNCHANGED <<env, port_i, sockets, ret, exit_code, history>>

CheckNetworkConnectivity ==
    /\ pc = "check_network_connectivity"
    /\ Store(check_network_connectivity(Self, env.ping))
    /\ pc' = "check_ports"
    /\ UNCHANGED <<env, port_i, sockets, ret, exit_code, history>>

\* check_ports up to the loop
CheckPorts ==
    /\ pc = "check_ports"
    /\ Store(print(Self, "Checking port accessibility..."))
    /\ port_i' = 1
    /\ pc' = "ports_socket"
    /\ UNCHANGED <<env, sockets, ret, exit_code, history>>

\* sock = socket.socket(...); sock.settimeout(3): both outside the try
CheckPortsSocket ==
    /\ pc = "ports_socket"
    /\ sockets' = IF env.ports[port_i].socket = "" THEN sockets \cup { port_i } ELSE sockets
    /\ pc' = IF env.ports[port_i].socket = "" /\ env.ports[port_i].settimeout = ""
             THEN "ports_try" ELSE "uncaught"
    /\ UNCHANGED <<env, errors, warnings, out, port_i, ret, exit_code, history>>

\* try: connect_ex ... except Exception
CheckPortsTry ==
    /\ pc = "ports_try"
    /\ Store(check_ports_try(Self, ports_to_check[port_i], env.ports[port_i]))
    /\ pc' = "ports_finally"
    /\ UNCHANGED <<env, port_i, sockets, ret, exit_code, history>>

\* finally: sock.close(), then the next iteration or the return
CheckPortsFinally ==
    /\ pc = "ports_finally"
    /\ sockets' = sockets \ { port_i }
    /\ port_i' = IF port_i < Len(ports_to_check) THEN port_i + 1 ELSE 0
    /\ pc' = IF port_i < Len(ports_to_check) THEN "ports_socket" ELSE "check_vertica_status"
    /\ UNCHANGED <<env, errors, warnings, out, ret, exit_code, history>>

CheckVerticaStatus ==
    /\ pc = "check_vertica_status"
    /\ Store(check_vertica_status(Self, env.vertica))
    /\ pc' = "check_kafka_connectivity"
    /\ UNCHANGED <<env, port_i, sockets, ret, exit_code, history>>

CheckKafkaConnectivity ==
    /\ pc = "check_kafka_connectivity"
    /\ LET r == check_kafka_connectivity(Self, env.dns) IN
         /\ Store(r.self)
         /\ pc' = IF r.raised = "" THEN "check_notebook_files" ELSE "uncaught"
    /\ UNCHANGED <<env, port_i, sockets, ret, exit_code, history>>

CheckNotebookFiles ==
    /\ pc = "check_notebook_files"
    /\ Store(check_notebook_files(Self, env.fs))
    /\ pc' = "generate_report"
    /\ UNCHANGED <<env, port_i, sockets, ret, exit_code, history>>

GenerateReport ==
    /\ pc = "generate_report"
    /\ LET r == generate_report(Self) IN
         /\ Store(r.self)
         /\ ret' = IF r.value THEN "true" ELSE "false"
    /\ pc' = "sys_exit"
    /\ UNCHANGED <<env, port_i, sockets, exit_code, history>>

\* What a finished process leaves behind: its logs and its exit status.
Outcome(code) == [errors |-> errors, warnings |-> warnings, exit_code |-> code]

\* sys.exit(0 if success else 1); the process ends and the OS closes its sockets
sys_exit_code(success) == IF success = "true" THEN 0 ELSE 1

SysExit ==
    /\ pc = "sys_exit"
    /\ exit_code' = << sys_exit_code(ret) >>
    /\ history' = Append(history, Outcome(sys_exit_code(ret)))
    /\ sockets' = { }
    /\ pc' = "exited"
    /\ UNCHANGED <<env, errors, warnings, out, port_i, ret>>

\* An exception nobody catches: the interpreter prints the traceback and the
\* process ends with status 1.
UncaughtException ==
    /\ pc = "uncaught"
    /\ exit_code' = << 1 >>
    /\ history' = Append(history, Outcome(1))
    /\ sockets' = { }
    /\ pc' = "exited"
    /\ UNCHANGED <<env, errors, warnings, out, port_i, ret>>

\* Mutant of MainAgain: the logs of the previous run are kept.
MainAgain_keeping_logs ==
    /\ pc = "exited"
    /\ Len(history) < MaxRuns
    /\ pc' = "check_directories"
    /\ out' = << >>
    /\ port_i' = 0
    /\ sockets' = { }
    /\ ret' = "none"
    /\ exit_code' = << >>
    /\ UNCHANGED <<env, errors, warnings, history>>

\* The script is started again: validator = PipelineValidator() in a new process.
MainAgain ==
    /\ pc = "exited"
    /\ Len(history) < MaxRuns
    /\ Store(PipelineValidator_init)
    /\ pc' = "check_directories"
    /\ port_i' = 0
    /\ sockets' = { }
    /\ ret' = "none"
    /\ exit_code' = << >>
    /\ UNCHANGED <<env, history>>

Next ==
    \/ CheckDirectories
    \/ CheckDockerContainers
    \/ CheckNetworkConnectivity
    \/ CheckPorts
    \/ CheckPortsSocket
    \/ CheckPortsTry
    \/ CheckPortsFinally
    \/ CheckVerticaStatus
    \/ CheckKafkaConnectivity
    \/ CheckNotebookFiles
    \/ GenerateReport
    \/ SysExit
    \/ UncaughtException
    \/ MainAgain

Spec == Init /\ [][Next]_vars

(***************************************************************************)
(* Vocabulary of the properties: the printed lines read back.              *)
(***************************************************************************)
Headers ==
    << "Checking directories...",
       "Checking Docker containers...",
       "Checking network connectivity...",
       "Checking port accessibility...",
       "Checking Vertica database...",
       "Checking Kafka connectivity...",
       "Checking notebook files...",
       "VALIDATION REPORT" >>

Range(seq) == { seq[k] : k \in 1..Len(seq) }

Texts(lines) == [k \in 1..Len(lines) |-> lines[k].text]

WithMark(lines, m) == SelectSeq(lines, LAMBDA l : l.mark = m)

IsHeader(l) == l.mark = "" /\ l.text \in Range(Headers)

IsPrefix(a, b) == Len(a) <= Len(b) /\ SubSeq(b, 1, Len(a)) = a

Least(S) == CHOOSE x \in S : \A y \in S : x <= y

Greatest(S) == CHOOSE x \in S : \A y \in S : y <= x

Started(h) == \E k \in 1..Len(out) : out[k].mark = "" /\ out[k].text = h

HeaderIndex(h) == Least({ k \in 1..Len(out) : out[k].mark = "" /\ out[k].text = h })

\* The lines printed after header h and before the next header.
Segment(h) ==
    LET from == HeaderIndex(h)
        later == { j \in (from + 1)..Len(out) : IsHeader(out[j]) }
    IN  SubSeq(out, from + 1, IF later = { } THEN Len(out) ELSE Least(later) - 1)

\* The header under which line k was printed.
RoutineAt(k) == out[Greatest({ j \in 1..k : IsHeader(out[j]) })].text

\* The names the list command returned.
ListedNames == Range(env.docker.stdout) \ { "\n" }

InPorts == pc \in { "ports_socket", "ports_try", "ports_finally" }

(***************************************************************************)
(* C1: generate_report returns true iff the error log is empty, whatever   *)
(* the warnings; the process ends with status 0 exactly when that value is *)
(* true and with status 1 otherwise.                                       *)
(***************************************************************************)
C1_ReportValueAndExitCode ==
    /\ ret # "none" => (ret = "true" <=> errors = << >>)
    /\ pc = "exited" => /\ exit_code \in { << 0 >>, << 1 >> }
                        /\ exit_code = << 0 >> <=> ret = "true"

C1_Witness ==
    /\ pc = "exited"
    /\ errors = << >>
    /\ Len(warnings) >= 2
    /\ ret = "true"
    /\ exit_code = << 0 >>

(***************************************************************************)
(* C2: no exception raised by an OS call leaves a check routine: main      *)
(* always reaches generate_report and sys.exit.                            *)
(***************************************************************************)
C2_NoExceptionPropagates ==
    /\ pc # "uncaught"
    /\ pc = "exited" => ret # "none"

(***************************************************************************)
(* C3: errors are logged only by the directory, container, network and     *)
(* notebook checks, warnings only by the port, Vertica and Kafka checks;   *)
(* so when directories, containers, ping and notebook are fine, the exit   *)
(* status is 0 for every outcome of the port, Vertica and DNS probes.      *)
(***************************************************************************)
BlockingProbesFine ==
    /\ Paths \subseteq env.fs
    /\ env.docker.raises = "" /\ Required \subseteq ListedNames
    /\ env.ping.raises = "" /\ env.ping.returncode = 0

C3_SeverityPolicy ==
    /\ \A k \in 1..Len(out) :
         /\ out[k].mark = "ERROR" =>
              RoutineAt(k) \in { Headers[1], Headers[2], Headers[3], Headers[7] }
         /\ out[k].mark = "WARNING" =>
              RoutineAt(k) \in { Headers[4], Headers[5], Headers[6] }
    /\ Texts(WithMark(out, "ERROR")) = errors
    /\ Texts(WithMark(out, "WARNING")) = warnings
    /\ (pc = "exited" /\ BlockingProbesFine) => exit_code = << 0 >>

(***************************************************************************)
(* C4: check_docker_containers emits one outcome per required container,   *)
(* in configured order: a success if the name was listed, otherwise an     *)
(* error appended to the error log; if the list command fails, at least    *)
(* one error and no success.                                               *)
(***************************************************************************)
DockerExpected(k) ==
    IF required_containers[k] \in ListedNames
    THEN [mark |-> "OK", text |-> "Container running: " \o required_containers[k]]
    ELSE [mark |-> "ERROR", text |-> "Container not running: " \o required_containers[k]]

ListCommandFailed ==
    \/ env.docker.raises # ""
    \/ env.docker.returncode # 0 /\ ListedNames = { }

C4_DockerContainers ==
    Started(Headers[2]) =>
       LET seg == Segment(Headers[2])
           before == WithMark(SubSeq(out, 1, HeaderIndex(Headers[2])), "ERROR")
           mine == Texts(WithMark(seg, "ERROR"))
       IN  /\ env.docker.raises = "" =>
                /\ seg = [k \in 1..Len(required_containers) |-> DockerExpected(k)]
                /\ Len(mine) = Cardinality(Required \ ListedNames)
           /\ ListCommandFailed =>
                /\ Len(mine) >= 1
                /\ WithMark(seg, "OK") = << >>
           /\ Len(errors) >= Len(before) + Len(mine)
           /\ SubSeq(errors, Len(before) + 1, Len(before) + Len(mine)) = mine

C4_Witness ==
    /\ pc = "check_network_connectivity"
    /\ ListedNames = { "spark-master", "pg-db" }
    /\ Len(WithMark(Segment(Headers[2]), "OK")) = 2
    /\ Len(WithMark(Segment(Headers[2]), "ERROR")) = 2

(***************************************************************************)
(* C5: once check_ports is left it has emitted exactly one outcome per     *)
(* configured port, in order: a success when the connect succeeded, else   *)
(* one warning; the error log is untouched.                                *)
(***************************************************************************)
C5_PortOutcomes ==
    (Started(Headers[4]) /\ ~InPorts) =>
       LET seg == Segment(Headers[4]) IN
         /\ Len(seg) = Len(ports_to_check)
         /\ \A k \in 1..Len(ports_to_check) :
              IF PortOpen(env.ports[k])
              THEN seg[k] = [mark |-> "OK",
                             text |-> ports_to_check[k].service \o " accessible on port "
                                        \o str(ports_to_check[k].port)]
              ELSE seg[k].mark = "WARNING"
         /\ WithMark(seg, "ERROR") = << >>

(***************************************************************************)
(* C6: at most one socket is open at any time, each is closed before the   *)
(* next one is opened, and none is open once check_ports has returned or   *)
(* been left.                                                              *)
(***************************************************************************)
C6_SocketsClosed ==
    /\ Cardinality(sockets) <= 1
    /\ pc \notin { "ports_try", "ports_finally" } => sockets = { }

(***************************************************************************)
(* C7: the report prints the "all checks passed" banner iff both logs are  *)
(* empty; it prints every warning, then every error, each in log order;    *)
(* it prints the 'ready' next steps iff the error log is empty and the     *)
(* 'fix the errors' next steps iff it is not.                              *)
(***************************************************************************)
Bullet(m) == "   - " \o m

C7_ReportContents ==
    ret # "none" =>
       LET rep == Texts(Segment(Headers[8]))
           bullets == { Bullet(m) : m \in Range(warnings) \cup Range(errors) }
       IN  /\ "ALL CHECKS PASSED!" \in Range(rep) <=> (errors = << >> /\ warnings = << >>)
           /\ SelectSeq(rep, LAMBDA t : t \in bullets)
                = [k \in 1..Len(warnings) |-> Bullet(warnings[k])]
                  \o [k \in 1..Len(errors) |-> Bullet(errors[k])]
           /\ "2. Open Jupyter: http://localhost:8888" \in Range(rep) <=> errors = << >>
           /\ "1. Fix the errors listed above" \in Range(rep) <=> errors # << >>

C7_Witness ==
    /\ ret # "none"
    /\ Len(warnings) >= 2
    /\ errors # << >>

C7_WitnessWarningsOnly ==
    /\ ret # "none"
    /\ warnings # << >>
    /\ errors = << >>

(***************************************************************************)
(* C8: running the script again in the same environment gives the same     *)
(* error log, the same warning log and the same exit status; a run starts  *)
(* with empty logs and no open socket.                                     *)
(***************************************************************************)
C8_Idempotence ==
    /\ \A a, b \in 1..Len(history) : history[a] = history[b]
    /\ pc = "check_directories" => errors = << >> /\ warnings = << >> /\ sockets = { }

C8_Witness ==
    /\ Len(history) >= 2
    /\ history[1].errors # << >>
    /\ history[1].warnings # << >>
    /\ history[2] = history[1]

(***************************************************************************)
(* C9: every run executes the seven checks once each in the fixed order,   *)
(* then generate_report once, then terminates; no check is skipped.        *)
(***************************************************************************)
C9_FixedOrderOnce ==
    LET ran == Texts(SelectSeq(out, IsHeader)) IN
      /\ IsPrefix(ran, Headers)
      /\ pc = "exited" => ran = Headers /\ ret # "none"

(***************************************************************************)
(* C10: both logs start empty and only grow during a run; every line       *)
(* printed with the error marker is exactly one entry appended to errors,  *)
(* every line with the warning marker exactly one entry appended to        *)
(* warnings, a success line or a report line adds no entry, and            *)
(* generate_report leaves both logs unchanged.                             *)
(***************************************************************************)
AppendOnlyStep ==
    pc # "exited" =>
       /\ IsPrefix(errors, errors')
       /\ IsPrefix(warnings, warnings')
       /\ IsPrefix(out, out')
       /\ LET new == SubSeq(out', Len(out) + 1, Len(out')) IN
            /\ errors' = errors \o Texts(WithMark(new, "ERROR"))
            /\ warnings' = warnings \o Texts(WithMark(new, "WARNING"))
       /\ pc = "generate_report" => errors' = errors /\ warnings' = warnings

C10_AppendOnly == (errors = << >> /\ warnings = << >>) /\ [][AppendOnlyStep]_vars

C10_Witness ==
    /\ ret # "none"
    /\ errors # << >>
    /\ warnings # << >>
    /\ WithMark(out, "OK") # << >>

====
